---- MODULE Spec2Model ----
(***************************************************************************)
(* Model of src/app.py: the interest scheduler of the py-saves Flask app.  *)
(*                                                                         *)
(* index() fetches a table of deposits (get_google_sheet_data), and        *)
(* calculate_interest adds three derived columns to it, each with one      *)
(* DataFrame.apply over the rows:                                          *)
(*   'Interval (months)'   get_interval                                    *)
(*   'Next Interest Date'  next_interest_date                              *)
(*   'Interest Amount'     the lambda of lines 98-105                      *)
(* Any exception raised while a column is computed leaves calculate_       *)
(* interest and is caught by index(), which renders an error page with no  *)
(* rows at all.  The display columns of lines 108-114 are renderings of    *)
(* these columns and of the input; they are left out.                      *)
(*                                                                         *)
(* Values.  A numeric cell is a record: NaN, a whole number Num(n), or a   *)
(* number with a fractional part Frac(n) (standing for n + 1/2).  A date   *)
(* cell is NaT or a record [year, month, day].  None is Python's None.     *)
(* The strings returned by next_interest_date are TLA+ strings; an         *)
(* exception that leaves a function is the name of the exception.          *)
(***************************************************************************)
EXTENDS Integers, Sequences, FiniteSets, TLC

VARIABLES pc, df, today, data, error

vars == <<pc, df, today, data, error>>

(***************************************************************************)
(* Bounds of the model.                                                    *)
(***************************************************************************)
\* Terms range over -NegTerm .. MaxTerm months (and NaN, and n + 1/2).
MaxTerm == 3
NegTerm == 1
\* The evaluation month ranges from MonthsBefore months before the start
\* month to MonthsAfter months after it.
MonthsBefore == 2
MonthsAfter == 3

(***************************************************************************)
(* Python and pandas values.                                               *)
(***************************************************************************)
None == [tag |-> "None"]
NaN == [tag |-> "NaN"]
NaT == [tag |-> "NaT"]
Num(n) == [tag |-> "num", v |-> n]
Frac(n) == [tag |-> "frac", v |-> n]

\* pd.isna / pd.notna on a scalar
isna(x) == x \in {None, NaN, NaT}
notna(x) == ~isna(x)

\* A number in half units: Num(n) is 2n halves, Frac(n) is 2n + 1 halves.
Halves(x) == IF x.tag = "num" THEN 2 * x.v ELSE 2 * x.v + 1

\* Python's // : the floor of the quotient, for either sign of the divisor.
FloorDiv(a, b) == IF b > 0 THEN a \div b ELSE (-a) \div (-b)

(***************************************************************************)
(* Calendar arithmetic: Timestamp + relativedelta(months=n), comparison of *)
(* two Timestamps, strftime('%Y-%m-%d').                                   *)
(***************************************************************************)
IsLeap(y) == (y % 4 = 0 /\ y % 100 # 0) \/ y % 400 = 0

DaysInMonth(y, m) ==
    IF m = 2 THEN (IF IsLeap(y) THEN 29 ELSE 28)
    ELSE IF m \in {4, 6, 9, 11} THEN 30 ELSE 31

Min(a, b) == IF a < b THEN a ELSE b

\* start_date + relativedelta(months=n), n a whole number: the month moves
\* by n, the year carries, the day is clamped to the target month's length.
relativedelta(d, n) ==
    LET idx == d.year * 12 + (d.month - 1) + n
        y == idx \div 12
        m == (idx % 12) + 1
    IN [year |-> y, month |-> m, day |-> Min(d.day, DaysInMonth(y, m))]

\* a > b on two dates
DateAfter(a, b) ==
    \/ a.year > b.year
    \/ a.year = b.year /\ a.month > b.month
    \/ a.year = b.year /\ a.month = b.month /\ a.day > b.day

Pad2(n) == IF n < 10 THEN "0" \o ToString(n) ELSE ToString(n)

strftime(d) == ToString(d.year) \o "-" \o Pad2(d.month) \o "-" \o Pad2(d.day)

(***************************************************************************)
(* str(...).strip() on a Frequency cell.  A cell is None (no value) or a   *)
(* text Text(s), s a sequence of pieces with " " being white space;        *)
(* str(None) is the text "None".                                           *)
(***************************************************************************)
RECURSIVE lstrip(_)
lstrip(s) == IF s # <<>> /\ Head(s) = " " THEN lstrip(Tail(s)) ELSE s

RECURSIVE rstrip(_)
rstrip(s) ==
    IF s # <<>> /\ s[Len(s)] = " " THEN rstrip(SubSeq(s, 1, Len(s) - 1)) ELSE s

RECURSIVE Join(_)
Join(s) == IF s = <<>> THEN "" ELSE Head(s) \o Join(Tail(s))

Text(s) == [tag |-> "str", s |-> s]

str(cell) == IF cell = None THEN <<"None">> ELSE cell.s

strip(s) == Join(rstrip(lstrip(s)))

(***************************************************************************)
(* The table get_google_sheet_data returns.                                *)
(***************************************************************************)
StartDates == {NaT, [year |-> 2024, month |-> 1, day |-> 31]}

Terms == {NaN} \cup {Num(n) : n \in (0 - NegTerm)..MaxTerm} \cup {Frac(2)}

Frequencies ==
    { Text(<<"Monthly">>), Text(<<" ", "Quarterly", " ">>),
      Text(<<"End of Term">>), Text(<<"monthly">>), None }

Principals == {NaN, Num(1000)}

Rates == {NaN, Num(5)}

Rows ==
    [Start : StartDates, Term : Terms, Frequency : Frequencies,
     Principal : Principals, Rate : Rates]

\* The second row of a two-row table: only the two fields that decide its
\* interval vary.
OtherRows ==
    {r \in Rows : notna(r.Start) /\ notna(r.Principal) /\ notna(r.Rate)}

Frames == {<<r>> : r \in Rows} \cup {<<r, s>> : r \in Rows, s \in OtherRows}

\* datetime.now(): only its year and month are read.
Todays ==
    { LET idx == 2024 * 12 + k
      IN [year |-> idx \div 12, month |-> (idx % 12) + 1]
      : k \in (0 - MonthsBefore)..MonthsAfter }

(***************************************************************************)
(* calculate_interest                                                      *)
(***************************************************************************)
get_interval(row) ==
    LET frequency == strip(str(row.Frequency))
    IN IF frequency = "Monthly" THEN Num(1)
       ELSE IF frequency = "Quarterly" THEN Num(3)
       ELSE IF frequency = "End of Term"
            THEN (IF notna(row.Term) THEN row.Term ELSE None)
       ELSE None

\* The Series that DataFrame.apply(axis=1) builds from the rows' results:
\* as soon as one result is a number the column is float64 and every None
\* in it becomes NaN; a column of None alone stays a column of objects.
ApplySeries(results) ==
    IF \E i \in DOMAIN results : results[i].tag \in {"num", "frac"}
    THEN [i \in DOMAIN results |->
             IF results[i] = None THEN NaN ELSE results[i]]
    ELSE results

months_since_start(start_date, now) ==
    (now.year - start_date.year) * 12 + (now.month - start_date.month)

\* A division that rounds toward zero, as / on integers does in C.
TruncDiv(a, b) == IF a >= 0 THEN a \div b ELSE 0 - ((0 - a) \div b)

\* next_multiple2 with a quotient rounded toward zero instead of down.
next_multiple2_truncating(m, interval_months) ==
    LET i2 == Halves(interval_months)
    IN IF i2 > 0 THEN (TruncDiv(2 * m, i2) + 1) * i2
       ELSE (FloorDiv(2 * m, i2) + 1) * i2

\* ((months_since_start // interval_months) + 1) * interval_months, in
\* half months (interval_months is a number, not zero).
next_multiple2(m, interval_months) ==
    LET i2 == Halves(interval_months)
    IN (FloorDiv(2 * m, i2) + 1) * i2

\* term_ended with >= for > : a payment due on the last day is dropped.
term_ended_on_or_after(next_date, end_date) ==
    ~DateAfter(end_date, next_date)

\* next_date > end_date
term_ended(next_date, end_date) == DateAfter(next_date, end_date)

next_interest_date(start_date, term_months, interval_months, now) ==
    IF interval_months = None \/ isna(start_date) \/ isna(term_months)
    THEN "Invalid Data"
    ELSE IF interval_months = NaN
    THEN "ValueError"          \* nan // and *, then relativedelta(months=nan)
    ELSE IF Halves(interval_months) = 0
    THEN "ZeroDivisionError"   \* months_since_start // 0
    ELSE LET nm2 == next_multiple2(months_since_start(start_date, now),
                                   interval_months)
         IN IF nm2 % 2 # 0 \/ term_months.tag # "num"
            THEN "ValueError"  \* relativedelta(months=<not a whole number>)
            ELSE LET next_date == relativedelta(start_date, nm2 \div 2)
                     end_date == relativedelta(start_date, term_months.v)
                 IN IF term_ended(next_date, end_date)
                    THEN "Term Ended"
                    ELSE strftime(next_date)

Exceptions == {"ValueError", "ZeroDivisionError"}

\* interest_amount without "Term Ended" in its list of terminal results.
interest_amount_after_term(principal, rate, interval_months, next_date) ==
    IF next_date = "Invalid Data" \/ isna(principal) \/ isna(rate)
    THEN [num |-> 0, den |-> 1]
    ELSE [num |-> principal.v * rate.v * interval_months.v, den |-> 100 * 12]

\* interest_amount with the annual rate divided by 12 whatever the interval.
interest_amount_one_month(principal, rate, interval_months, next_date) ==
    IF \/ next_date \in {"Term Ended", "Invalid Data"}
       \/ isna(principal)
       \/ isna(rate)
    THEN [num |-> 0, den |-> 1]
    ELSE [num |-> principal.v * rate.v, den |-> 100 * 12]

\* The lambda of lines 98-105: an exact fraction num/den, never rounded.
interest_amount(principal, rate, interval_months, next_date) ==
    IF \/ next_date \in {"Term Ended", "Invalid Data"}
       \/ isna(principal)
       \/ isna(rate)
    THEN [num |-> 0, den |-> 1]
    ELSE [num |-> principal.v * rate.v * interval_months.v, den |-> 100 * 12]

\* A row of the frame calculate_interest returns.
derived_row(row, interval_months, next_date) ==
    [Start |-> row.Start, Term |-> row.Term, Frequency |-> row.Frequency,
     Principal |-> row.Principal, Rate |-> row.Rate,
     Interval |-> interval_months,
     NextInterestDate |-> next_date,
     InterestAmount |-> interest_amount(row.Principal, row.Rate,
                                        interval_months, next_date)]

\* The frame with its three derived columns, or the exception that left
\* calculate_interest (that of the first row to raise).
calculate_interest(frame, now) ==
    LET I == DOMAIN frame
        interval == ApplySeries([i \in I |-> get_interval(frame[i])])
        next == [i \in I |->
                    next_interest_date(frame[i].Start, frame[i].Term,
                                       interval[i], now)]
        raised == {i \in I : next[i] \in Exceptions}
    IN IF raised # {}
       THEN [raised |-> TRUE,
             exception |-> next[CHOOSE i \in raised :
                                    \A j \in raised : i <= j],
             rows |-> <<>>]
       ELSE [raised |-> FALSE, exception |-> "",
             rows |-> [i \in I |-> derived_row(frame[i], interval[i], next[i])]]

(***************************************************************************)
(* index(): one request.                                                   *)
(***************************************************************************)
Init ==
    /\ pc = "request"
    /\ df = <<>>
    /\ today = [year |-> 0, month |-> 0]
    /\ data = <<>>
    /\ error = "None"

SourceErrors ==
    { "No data found in the Google Sheet.",
      "Service account credentials file (credentials.json) not found.",
      "Google Sheets API error",
      "Unexpected error reading Google Sheet" }

\* get_google_sheet_data returns (df, None), or (None, message) when the
\* sheet cannot be read or is empty.
get_google_sheet_data ==
    /\ pc = "request"
    /\ \/ /\ \E frame \in Frames : df' = frame
          /\ pc' = "fetched"
          /\ error' = error
       \/ /\ df' = <<>>
          /\ pc' = "rendered"
          /\ \E message \in SourceErrors : error' = message
    /\ UNCHANGED <<today, data>>

\* index(), lines 121-127: calculate_interest under try/except, then
\* render_template with the rows or with the error.
index ==
    /\ pc = "fetched"
    /\ \E now \in Todays :
          LET result == calculate_interest(df, now)
          IN /\ today' = now
             /\ data' = result.rows
             /\ error' = IF result.raised
                         THEN "Error processing data: " \o result.exception
                         ELSE "None"
    /\ pc' = "rendered"
    /\ UNCHANGED df

Next == get_google_sheet_data \/ index

Spec == Init /\ [][Next]_vars

(***************************************************************************)
(* Vocabulary of the properties.                                           *)
(***************************************************************************)
\* index() has run calculate_interest on a table.
Calculated == pc = "rendered" /\ df # <<>>

\* ... and calculate_interest returned the frame.
Computed == Calculated /\ error = "None"

IsDate(s) == s \notin {"Invalid Data", "Term Ended"}

\* The row, processed as a table of its own, does not raise.
AloneOk(row, now) == ~calculate_interest(<<row>>, now).raised

\* Every row but row i computes when processed alone.
OthersAloneOk(i) ==
    \A j \in DOMAIN df : j # i => AloneOk(df[j], today)

\* Two derived rows agree: the same interval (or none in both), the same
\* Next Interest Date, the same Interest Amount.
SameOutcome(a, b) ==
    /\ a.Interval = b.Interval \/ (isna(a.Interval) /\ isna(b.Interval))
    /\ a.NextInterestDate = b.NextInterestDate
    /\ a.InterestAmount = b.InterestAmount

\* What the scheduler is given for a row whose interval is a number.
Schedulable(row) ==
    /\ notna(row.Start)
    /\ row.Term.tag = "num"
    /\ get_interval(row).tag = "num"

candidateDate(row) ==
    relativedelta(row.Start,
                  next_multiple2(months_since_start(row.Start, today),
                                 get_interval(row)) \div 2)

endDate(row) == relativedelta(row.Start, row.Term.v)

\* The month offsets, looking back from the current one, that a returned
\* date is compared with.
LookBack == MonthsBefore + MonthsAfter + MaxTerm + NegTerm + 3

(***************************************************************************)
(* C1: a row with startDate, termMonths or intervalMonths absent gets Next *)
(* Interest Date "Invalid Data" and Interest Amount 0, whatever its other  *)
(* fields and whatever the other rows of the batch are.  Stated here for   *)
(* the batches whose other rows each compute when processed alone.         *)
(***************************************************************************)
C1_AbsentInputIsInvalidData ==
    Calculated =>
        \A i \in DOMAIN df :
            ( /\ \/ isna(df[i].Start)
                 \/ isna(df[i].Term)
                 \/ get_interval(df[i]) = None
              /\ OthersAloneOk(i) )
            => /\ error = "None"
               /\ data[i].NextInterestDate = "Invalid Data"
               /\ data[i].InterestAmount.num = 0

(***************************************************************************)
(* C2: get_interval maps "Monthly" to 1, "Quarterly" to 3, "End of Term"   *)
(* to termMonths (absent when termMonths is absent) and every other label  *)
(* to absent; and an absent interval always yields Next Interest Date      *)
(* "Invalid Data" (stated for the batches whose other rows each compute    *)
(* when processed alone).                                                  *)
(***************************************************************************)
C2_FrequencyMapping ==
    Calculated =>
        \A i \in DOMAIN df :
            LET label == strip(str(df[i].Frequency))
                interval == get_interval(df[i])
            IN /\ label = "Monthly" => interval = Num(1)
               /\ label = "Quarterly" => interval = Num(3)
               /\ label = "End of Term" =>
                      interval = IF isna(df[i].Term) THEN None ELSE df[i].Term
               /\ label \notin {"Monthly", "Quarterly", "End of Term"} =>
                      interval = None
               /\ (interval = None /\ OthersAloneOk(i)) =>
                      /\ error = "None"
                      /\ data[i].NextInterestDate = "Invalid Data"

(***************************************************************************)
(* C3: for a present startDate and termMonths and a positive interval,     *)
(* nextMultiple is the smallest multiple of intervalMonths strictly        *)
(* greater than monthsSinceStart, for every evaluation month (before, in   *)
(* or after the start month); so a returned date is never startDate plus   *)
(* a month offset that is at most the current one.  (In half months: nm2   *)
(* is a multiple of the interval, above 2m, and one interval less is not.) *)
(***************************************************************************)
C3_NextMultipleSmallestGreater ==
    Calculated =>
        \A i \in DOMAIN df :
            LET row == df[i]
                interval == get_interval(row)
            IN ( /\ notna(row.Start)
                 /\ notna(row.Term)
                 /\ interval.tag \in {"num", "frac"}
                 /\ Halves(interval) > 0 )
               => LET m == months_since_start(row.Start, today)
                      i2 == Halves(interval)
                      nm2 == next_multiple2(m, interval)
                  IN /\ nm2 % i2 = 0
                     /\ nm2 > 2 * m
                     /\ nm2 - i2 <= 2 * m
                     /\ (error = "None" /\ IsDate(data[i].NextInterestDate))
                        => data[i].NextInterestDate \notin
                              { strftime(relativedelta(row.Start, k)) :
                                    k \in (m - LookBack)..m }

\* C3's case: the evaluation month is before the start month and a date is
\* returned.
C3_Witness ==
    /\ Computed
    /\ \E i \in DOMAIN df :
          /\ Schedulable(df[i])
          /\ get_interval(df[i]) = Num(3)
          /\ months_since_start(df[i].Start, today) < 0
          /\ IsDate(data[i].NextInterestDate)

C5_EndOnOrBeforeCandidate ==
    Computed =>
        \A i \in DOMAIN df :
            ( /\ Schedulable(df[i])
              /\ df[i].Term.v > 0
              /\ get_interval(df[i]).v > 0
              /\ months_since_start(df[i].Start, today) >= 0
              /\ ~DateAfter(endDate(df[i]), candidateDate(df[i])) )
            => /\ data[i].NextInterestDate = "Term Ended"
               /\ data[i].InterestAmount.num = 0

(***************************************************************************)
(* C5, amended: whenever endDate is strictly before candidateDate, the     *)
(* scheduler's result is "Term Ended", and the row's Interest Amount in    *)
(* the computed frame is 0, for every principal and rate.                  *)
(***************************************************************************)
C5_EndBeforeCandidate ==
    Calculated =>
        \A i \in DOMAIN df :
            LET row == df[i]
            IN ( /\ Schedulable(row)
                 /\ get_interval(row).v # 0
                 /\ DateAfter(candidateDate(row), endDate(row)) )
               => /\ next_interest_date(row.Start, row.Term,
                                        get_interval(row), today)
                        = "Term Ended"
                  /\ error = "None" =>
                        /\ data[i].NextInterestDate = "Term Ended"
                        /\ data[i].InterestAmount.num = 0

\* C5's case: the term has ended for a row with a principal and a rate.
C5_Witness ==
    /\ Computed
    /\ \E i \in DOMAIN df :
          /\ Schedulable(df[i])
          /\ get_interval(df[i]).v > 0
          /\ DateAfter(candidateDate(df[i]), endDate(df[i]))
          /\ notna(df[i].Principal)
          /\ notna(df[i].Rate)
          /\ data[i].NextInterestDate = "Term Ended"
          /\ data[i].InterestAmount.num = 0

(***************************************************************************)
(* C6: Interest Amount is 0 when Next Interest Date is "Term Ended" or     *)
(* "Invalid Data" or the principal or the rate is absent; otherwise it is  *)
(* principal * (rate / 100) * (intervalMonths / 12) exactly, with the      *)
(* intervalMonths the scheduler used for the row.                          *)
(***************************************************************************)
C6_InterestAmount ==
    Computed =>
        \A i \in DOMAIN data :
            LET r == data[i]
            IN IF \/ r.NextInterestDate \in {"Term Ended", "Invalid Data"}
                  \/ isna(r.Principal)
                  \/ isna(r.Rate)
               THEN r.InterestAmount.num = 0
               ELSE /\ r.Interval = get_interval(df[i])
                    /\ r.Interval.tag = "num"
                    /\ r.NextInterestDate =
                          next_interest_date(r.Start, r.Term, r.Interval, today)
                    /\ r.InterestAmount.num * 100 * 12
                          = r.Principal.v * r.Rate.v * r.Interval.v
                                * r.InterestAmount.den

\* C6's case: a quarterly payment is due and the amount is 3/12 of a year.
C6_Witness ==
    /\ Computed
    /\ \E i \in DOMAIN data :
          /\ IsDate(data[i].NextInterestDate)
          /\ data[i].Interval = Num(3)
          /\ data[i].Principal = Num(1000)
          /\ data[i].Rate = Num(5)
          /\ data[i].InterestAmount.num * 100 * 12
                = 1000 * 5 * 3 * data[i].InterestAmount.den

(***************************************************************************)
(* C7: when a zero or negative intervalMonths reaches the scheduler        *)
(* ("End of Term" with termMonths <= 0), next_interest_date returns        *)
(* "Invalid Data": it does not raise and returns no date.                  *)
(***************************************************************************)
C7_NonPositiveIntervalIsInvalidData ==
    Calculated =>
        \A i \in DOMAIN df :
            ( /\ Schedulable(df[i])
              /\ strip(str(df[i].Frequency)) = "End of Term"
              /\ df[i].Term.v <= 0 )
            => next_interest_date(df[i].Start, df[i].Term,
                                  get_interval(df[i]), today)
                   = "Invalid Data"

(***************************************************************************)
(* C8: a row with termMonths = 0, a present startDate and interval 1 or 3  *)
(* gets "Term Ended" and Interest Amount 0 for every evaluation month,     *)
(* also one before the start month.                                        *)
(***************************************************************************)
C8_ZeroTermIsTermEnded ==
    Computed =>
        \A i \in DOMAIN df :
            ( /\ notna(df[i].Start)
              /\ df[i].Term = Num(0)
              /\ get_interval(df[i]) \in {Num(1), Num(3)} )
            => /\ data[i].NextInterestDate = "Term Ended"
               /\ data[i].InterestAmount.num = 0

(***************************************************************************)
(* C9: row independence.  A row gets the same Interval, Next Interest Date *)
(* and Interest Amount in every batch evaluated in the same month: here,   *)
(* in the batch it is in and in the batch of that row alone.  Stated for   *)
(* the batches whose other rows each compute when processed alone.         *)
(***************************************************************************)
C9_RowIndependence ==
    Calculated =>
        \A i \in DOMAIN df :
            LET alone == calculate_interest(<<df[i]>>, today)
            IN (~alone.raised /\ OthersAloneOk(i))
               => /\ error = "None"
                  /\ SameOutcome(data[i], alone.rows[1])

(***************************************************************************)
(* C10: a date returned by next_interest_date lies inside the term:        *)
(* strictly after startDate and not after endDate, for every evaluation    *)
(* month, also one before the start month.  Stated here for a positive     *)
(* term.                                                                   *)
(***************************************************************************)
C10_ReturnedDateInsideTerm ==
    Computed =>
        \A i \in DOMAIN df :
            ( /\ Schedulable(df[i])
              /\ df[i].Term.v > 0
              /\ IsDate(data[i].NextInterestDate) )
            => /\ data[i].NextInterestDate = strftime(candidateDate(df[i]))
               /\ DateAfter(candidateDate(df[i]), df[i].Start)
               /\ ~DateAfter(candidateDate(df[i]), endDate(df[i]))

====
